---------------------------- MODULE Spec2Model ----------------------------
(***************************************************************************)
(* Model of rewol: the aggregator (src/rewolserver/rewol.py) and the edge  *)
(* agent's wake endpoint (src/rewolproxy/rewolproxy.py):                   *)
(*   - ProxyStatusCache: replace_all / get_all / is_stale under one lock;  *)
(*   - BackgroundMonitorThread: _check_proxy_status, _monitor_loop,        *)
(*     start, stop;                                                        *)
(*   - parse_prometheus_metrics, verify_password, send_wol;                *)
(*   - RequestHandler.do_POST.                                             *)
(* The specifications share the variables:                                 *)
(*   Spec           the monitor thread polling the configured backends and *)
(*                  installing one snapshot per cycle;                     *)
(*   SpecCache      client threads calling the three cache operations      *)
(*                  concurrently, with a clock;                            *)
(*   SpecControl    main() building the monitor, and threads calling       *)
(*                  start() and stop() statement by statement;             *)
(*   SpecCredential calls of verify_password;                              *)
(*   SpecForwarder  /wol requests to the aggregator;                       *)
(*   SpecEdge       /wol requests to the edge agent.                       *)
(***************************************************************************)
EXTENDS Integers, Sequences, FiniteSets, TLC

(***************************************************************************)
(* Bounds of the model.                                                    *)
(***************************************************************************)
\* longest response body, in lines
MaxLines == 2
\* poll cycles one run of the monitor may begin
MaxCycles == 2
\* replace_all calls the cache clients may issue
MaxCalls == 2
\* last clock value of the cache clients' clock
MaxTime == 2
\* largest max_age_seconds a client passes to is_stale
MaxAge == 1
\* largest value the edge agent's WOL counter of a host is let reach
MaxWol == 2
\* entry dicts created in one run
MaxObjects == 4
\* is_stale(max_age_seconds=30)
default_max_age == 30
\* start() calls the callers of one BackgroundMonitorThread may issue
MaxStarts == 2

(***************************************************************************)
(* Program constants.                                                      *)
(***************************************************************************)
\* self.monitor_interval = 5
monitor_interval == 5
\* requests.get(url, timeout=3)
fetch_timeout == 3
\* config.get("service", {}).get("max_retries", 3): the retry limit the tests
\* configure; BackgroundMonitorThread in rewol.py has no such attribute
max_retries == 3

(***************************************************************************)
(* Values.                                                                 *)
(***************************************************************************)
\* Python's None for an optional timestamp; a present timestamp t is <<t>>
None == <<>>
At(t) == <<t>>

\* the empty dict
EmptyDict == [k \in {} |-> 0]

\* BACKENDS: the configured backends, in configuration order
Backends ==
  << [host |-> "A", address |-> "10.0.0.1:9000", password |-> "secretA"],
     [host |-> "B", address |-> "10.0.0.2:9000", password |-> "secretB"] >>

\* f"{backend['host']} (proxy down)"
ProxyDownName(backend) == backend.host \o " (proxy down)"

\* host names an edge agent may report: two ordinary ones and one that reads
\* like the placeholder of the first backend
HostNames == {"h1", "h2", ProxyDownName(Backends[1])}

(***************************************************************************)
(* parse_prometheus_metrics.  A body is a sequence of lines; a line is     *)
(* metric{host="<host>"} <value>.  The pattern                             *)
(*   rewol_host_up\{host="([^"]+)"\}\s+([01])                              *)
(* matches a line of the rewol_host_up family whose host label is not      *)
(* empty and whose value is 0 or 1.                                        *)
(***************************************************************************)
Line(metric, host, value) == [metric |-> metric, host |-> host, value |-> value]

Lines ==
  { Line("rewol_host_up", "h1", 1),
    Line("rewol_host_up", "h1", 0),
    Line("rewol_host_up", "h2", 1),
    Line("rewol_host_up", ProxyDownName(Backends[1]), 1),
    Line("rewol_host_up", "h2", 2),
    Line("rewol_host_up", "", 1),
    Line("rewol_wol_signals_total", "h1", 1) }

Bodies == UNION { [1..n -> Lines] : n \in 0..MaxLines }

Matches(line) ==
  /\ line.metric = "rewol_host_up"
  /\ line.host # ""
  /\ line.value \in {0, 1}

\* hosts[host] = {"status": int(status), "name": host}, a later match
\* replacing an earlier one of the same host
RECURSIVE parse_from(_, _, _)
parse_from(text, n, hosts) ==
  IF n > Len(text) THEN hosts
  ELSE IF Matches(text[n])
       THEN parse_from(text, n + 1,
              [h \in DOMAIN hosts \cup {text[n].host} |->
                 IF h = text[n].host
                 THEN [status |-> text[n].value, name |-> h]
                 ELSE hosts[h]])
       ELSE parse_from(text, n + 1, hosts)

parse_prometheus_metrics(text) == parse_from(text, 1, EmptyDict)

(***************************************************************************)
(* Threads and state.                                                      *)
(***************************************************************************)
Monitor == "monitor"
Writers == {"w1", "w2"}
Readers == {"r1"}
Clients == Writers \cup Readers
Threads == {Monitor} \cup Clients
\* the threads that call start() and stop() on one BackgroundMonitorThread
Callers == {"c1", "c2"}
\* the threading.Thread objects start() can create, in order of creation
ThreadObjects == 1..MaxStarts

VARIABLES
  cache,           \* ProxyStatusCache.cache: host name -> entry
  last_updated,    \* ProxyStatusCache.last_updated
  lock,            \* ProxyStatusCache.lock: "free" or the thread holding it
  now,             \* the clock read by datetime.now() and time.time()
  pc,              \* position of each thread
  new_data,        \* replace_all's argument, per calling thread
  max_age,         \* is_stale's argument, per calling thread
  ret,             \* value being returned by get_all / is_stale, per thread
  running,         \* BackgroundMonitorThread.running
  backend_idx,     \* _monitor_loop: index of the backend handled next
  new_cache_data,  \* _monitor_loop: the mapping built in this cycle
  start_time,      \* _monitor_loop: start_time of this cycle
  fetched,         \* history: what each backend's check did in this cycle
  cycles,          \* history: cycles begun
  installs,        \* history: replace_all calls of the monitor completed
  issued,          \* history: arguments of the clients' replace_all calls
  completed,       \* history: the same, in the order the calls completed
  thread,          \* BackgroundMonitorThread.thread: None or a thread object
  loop_pc,         \* position of each thread object created by start()
  call_pc,         \* position of each caller of start() and stop()
  starts,          \* history: start() calls begun
  config,          \* the tunables of the loaded configuration, None before
  background_monitor, \* the monitor built by main(): its tunables, or None
  verify_args,     \* verify_password: the arguments of the call, or None
  verify_ret,      \* verify_password: the value returned, or None
  wol_pc,          \* send_wol: position of the request being handled
  form,            \* send_wol: request.form, or None
  posted,          \* history: the requests.post calls of this request
  downstream,      \* history: what requests.post did, or None
  reply,           \* send_wol: the response returned, or None
  edge_pc,         \* do_POST: position of the request being handled
  request,         \* do_POST: the POST /wol request, or None
  host_wol,        \* MetricsManager.host_wol: WOL signals sent, per host
  wol_before,      \* history: host_wol when the request arrived
  packets,         \* history: the magic packets sent for this request
  responses,       \* history: the responses sent for this request
  heap,            \* the entry dicts ever created, by identity
  caller_data,     \* the mapping a caller of replace_all holds: name -> entry
  cache_ref,       \* ProxyStatusCache.cache as references: name -> entry
  snapshot,        \* the "hosts" mapping get_all returned last, or None
  seen,            \* history: the entries' contents when get_all returned
  host_up,         \* MetricsManager.host_up: 1 or 0, per host
  hm_running,      \* HostMonitor.running
  hm_pc,           \* position of each thread HostMonitor.start() created
  hm_idx,          \* HostMonitor._monitor_loop: index of the host pinged next
  metrics_text,    \* parse_prometheus_metrics: the text of the call, or None
  metrics_hosts,   \* parse_prometheus_metrics: the dict returned, or None
  api_pc,          \* api_status: position of the request being handled
  api_response     \* api_status: the JSON body being built, or None

cacheVars == <<cache, last_updated, lock>>
clientVars == <<new_data, max_age, ret>>
monitorVars == <<running, backend_idx, new_cache_data, start_time, fetched,
                 cycles, installs>>
historyVars == <<issued, completed>>
controlVars == <<thread, loop_pc, call_pc, starts, config, background_monitor>>
credentialVars == <<verify_args, verify_ret>>
forwarderVars == <<wol_pc, form, posted, downstream, reply>>
edgeVars == <<edge_pc, request, host_wol, wol_before, packets, responses>>
referenceVars == <<heap, caller_data, cache_ref, snapshot, seen>>
hostMonitorVars == <<host_up, hm_running, hm_pc, hm_idx>>
codecVars == <<metrics_text, metrics_hosts>>
statusVars == <<api_pc, api_response>>
restVars == <<controlVars, credentialVars, forwarderVars, edgeVars,
              referenceVars, hostMonitorVars, codecVars,
                 statusVars>>
vars == <<cacheVars, now, pc, clientVars, monitorVars, historyVars, restVars>>

NoRet == [kind |-> "none"]

Init ==
  /\ cache = EmptyDict
  /\ last_updated = None
  /\ lock = "free"
  /\ now = 0
  /\ pc = [t \in Threads |-> IF t = Monitor THEN "unborn" ELSE "idle"]
  /\ new_data = [t \in Threads |-> EmptyDict]
  /\ max_age = [t \in Threads |-> 0]
  /\ ret = [t \in Threads |-> NoRet]
  /\ running = FALSE
  /\ backend_idx = 1
  /\ new_cache_data = EmptyDict
  /\ start_time = 0
  /\ fetched = <<>>
  /\ cycles = 0
  /\ installs = 0
  /\ issued = {}
  /\ completed = <<>>
  /\ thread = None
  /\ loop_pc = [m \in ThreadObjects |-> "none"]
  /\ call_pc = [c \in Callers |-> "idle"]
  /\ starts = 0
  /\ config = None
  /\ background_monitor = None
  /\ verify_args = None
  /\ verify_ret = None
  /\ wol_pc = "idle"
  /\ form = None
  /\ posted = <<>>
  /\ downstream = None
  /\ reply = None
  /\ edge_pc = "idle"
  /\ request = None
  /\ host_wol = [h \in {"pc1", "pc2"} |-> 0]
  /\ wol_before = [h \in {"pc1", "pc2"} |-> 0]
  /\ packets = <<>>
  /\ responses = <<>>
  /\ heap = <<>>
  /\ caller_data = None
  /\ cache_ref = EmptyDict
  /\ snapshot = None
  /\ seen = None
  /\ host_up = [h \in {"pc1", "pc2"} |-> 0]
  /\ hm_running = FALSE
  /\ hm_pc = [m \in ThreadObjects |-> "unborn"]
  /\ hm_idx = [m \in ThreadObjects |-> 1]
  /\ metrics_text = None
  /\ metrics_hosts = None
  /\ api_pc = "idle"
  /\ api_response = None

\* an entry of a mapping handed to replace_all, not yet stamped
Entry(name, status, backend, down) ==
  [name |-> name, status |-> status, backend_name |-> backend.host,
   backend_address |-> backend.address, backend_password |-> backend.password,
   is_proxy_down |-> down, last_checked |-> None]

(***************************************************************************)
(* ProxyStatusCache.                                                       *)
(***************************************************************************)
\* with self.lock: entry
Acquire(t) == lock = "free" /\ lock' = t

\* a with-block left without giving the lock back
ReleaseSkipped(t) == lock = t /\ lock' = lock

\* a with-block that gives the lock back to the clients only
ReleaseByClients(t) == lock = t /\ lock' = IF t = "monitor" THEN t ELSE "free"

\* with self.lock: exit
Release(t) == lock = t /\ lock' = "free"

\* host_data["last_checked"] = datetime.now(), for every host of new_data
Stamp(data, time) ==
  [k \in DOMAIN data |-> [data[k] EXCEPT !.last_checked = At(time)]]

\* a mapping without its debugging timestamps
Unstamped(data) ==
  [k \in DOMAIN data |-> [data[k] EXCEPT !.last_checked = None]]

\* dict.update: the right operand's entries replace the left's
Update(old, new) ==
  [k \in DOMAIN old \cup DOMAIN new |->
     IF k \in DOMAIN new THEN new[k] ELSE old[k]]

\* variants of the replacement: an update of the dict in place, and an update
\* that lets the entries already cached stand
ReplacedInPlace(old, data) == Update(old, data)
ReplacedKeepingOld(old, data) == Update(data, old)

\* self.cache = new_data.copy()
Replaced(old, data) == data

\* where a thread continues after replace_all returns
AfterReplaceAll(t) == IF t = Monitor THEN "sleep" ELSE "idle"

ReplaceAllLock(t) ==
  /\ pc[t] = "ra_lock"
  /\ Acquire(t)
  /\ pc' = [pc EXCEPT ![t] = "ra_stamp"]
  /\ UNCHANGED restVars
  /\ UNCHANGED <<cache, last_updated, now, clientVars, monitorVars, historyVars>>

ReplaceAllStamp(t) ==
  /\ pc[t] = "ra_stamp"
  /\ new_data' = [new_data EXCEPT ![t] = Stamp(new_data[t], now)]
  /\ pc' = [pc EXCEPT ![t] = "ra_swap"]
  /\ UNCHANGED restVars
  /\ UNCHANGED <<cacheVars, now, max_age, ret, monitorVars, historyVars>>

ReplaceAllSwap(t) ==
  /\ pc[t] = "ra_swap"
  /\ cache' = Replaced(cache, new_data[t])
  /\ pc' = [pc EXCEPT ![t] = "ra_time"]
  /\ UNCHANGED restVars
  /\ UNCHANGED <<last_updated, lock, now, clientVars, monitorVars, historyVars>>

\* a replace_all that keeps the time of the previous one
UpdatedBefore(time) == last_updated

\* self.last_updated = datetime.now()
Updated(time) == At(time)

ReplaceAllTime(t) ==
  /\ pc[t] = "ra_time"
  /\ last_updated' = Updated(now)
  /\ pc' = [pc EXCEPT ![t] = "ra_unlock"]
  /\ UNCHANGED restVars
  /\ UNCHANGED <<cache, lock, now, clientVars, monitorVars, historyVars>>

ReplaceAllUnlock(t) ==
  /\ pc[t] = "ra_unlock"
  /\ Release(t)
  /\ pc' = [pc EXCEPT ![t] = AfterReplaceAll(t)]
  /\ IF t = Monitor
     THEN installs' = installs + 1 /\ UNCHANGED completed
     ELSE completed' = Append(completed, Unstamped(new_data[t])) /\ UNCHANGED installs
  /\ UNCHANGED restVars
  /\ UNCHANGED <<cache, last_updated, now, clientVars, running, backend_idx,
                 new_cache_data, start_time, fetched, cycles, issued>>

replace_all(t) ==
  \/ ReplaceAllLock(t)
  \/ ReplaceAllStamp(t)
  \/ ReplaceAllSwap(t)
  \/ ReplaceAllTime(t)
  \/ ReplaceAllUnlock(t)

GetAllLock(t) ==
  /\ pc[t] = "ga_lock"
  /\ Acquire(t)
  /\ pc' = [pc EXCEPT ![t] = "ga_hosts"]
  /\ UNCHANGED restVars
  /\ UNCHANGED <<cache, last_updated, now, clientVars, monitorVars, historyVars>>

\* "hosts": self.cache.copy()
GetAllHosts(t) ==
  /\ pc[t] = "ga_hosts"
  /\ ret' = [ret EXCEPT ![t] =
               [kind |-> "snapshot", hosts |-> cache, last_updated |-> None]]
  /\ pc' = [pc EXCEPT ![t] = "ga_time"]
  /\ UNCHANGED restVars
  /\ UNCHANGED <<cacheVars, now, new_data, max_age, monitorVars, historyVars>>

\* "last_updated": self.last_updated
GetAllTime(t) ==
  /\ pc[t] = "ga_time"
  /\ ret' = [ret EXCEPT ![t].last_updated = last_updated]
  /\ pc' = [pc EXCEPT ![t] = "ga_unlock"]
  /\ UNCHANGED restVars
  /\ UNCHANGED <<cacheVars, now, new_data, max_age, monitorVars, historyVars>>

GetAllUnlock(t) ==
  /\ pc[t] = "ga_unlock"
  /\ Release(t)
  /\ pc' = [pc EXCEPT ![t] = "idle"]
  /\ ret' = [ret EXCEPT ![t] = NoRet]
  /\ UNCHANGED restVars
  /\ UNCHANGED <<cache, last_updated, now, new_data, max_age, monitorVars,
                 historyVars>>

get_all(t) ==
  \/ GetAllLock(t)
  \/ GetAllHosts(t)
  \/ GetAllTime(t)
  \/ GetAllUnlock(t)

\* variant of the age test: >= for >
OlderThanOrEqual(time, updated, age) == time - updated >= age

\* (datetime.now() - self.last_updated) > timedelta(seconds=max_age_seconds)
OlderThan(time, updated, age) == time - updated > age

\* the value is_stale returns when it reads the clock at `time`
StaleAt(time, updated, age) ==
  IF updated = None THEN TRUE ELSE OlderThan(time, updated[1], age)

IsStaleLock(t) ==
  /\ pc[t] = "is_lock"
  /\ Acquire(t)
  /\ pc' = [pc EXCEPT ![t] = "is_check"]
  /\ UNCHANGED restVars
  /\ UNCHANGED <<cache, last_updated, now, clientVars, monitorVars, historyVars>>

IsStaleCheck(t) ==
  /\ pc[t] = "is_check"
  /\ ret' = [ret EXCEPT ![t] =
               [kind |-> "stale", value |-> StaleAt(now, last_updated, max_age[t]),
                read_at |-> now]]
  /\ pc' = [pc EXCEPT ![t] = "is_unlock"]
  /\ UNCHANGED restVars
  /\ UNCHANGED <<cacheVars, now, new_data, max_age, monitorVars, historyVars>>

IsStaleUnlock(t) ==
  /\ pc[t] = "is_unlock"
  /\ Release(t)
  /\ pc' = [pc EXCEPT ![t] = "idle"]
  /\ ret' = [ret EXCEPT ![t] = NoRet]
  /\ UNCHANGED restVars
  /\ UNCHANGED <<cache, last_updated, now, new_data, max_age, monitorVars,
                 historyVars>>

is_stale(t) ==
  \/ IsStaleLock(t)
  \/ IsStaleCheck(t)
  \/ IsStaleUnlock(t)

(***************************************************************************)
(* The cache's clients: threads that call the three operations, as the     *)
(* request handlers and the tests' writer threads do.                      *)
(***************************************************************************)
\* the mappings the writer threads install
ClientData ==
  { EmptyDict,
    [k \in {"h1", "h2"} |->
       Entry(k, IF k = "h1" THEN 1 ELSE 0, Backends[1], FALSE)],
    [k \in {"h2"} |-> Entry(k, 1, Backends[2], FALSE)] }

CallReplaceAll(t) ==
  /\ pc[t] = "idle"
  /\ Len(completed) + Cardinality({w \in Writers : pc[w] # "idle"}) < MaxCalls
  /\ \E d \in ClientData :
       /\ new_data' = [new_data EXCEPT ![t] = d]
       /\ issued' = issued \cup {d}
  /\ pc' = [pc EXCEPT ![t] = "ra_lock"]
  /\ UNCHANGED restVars
  /\ UNCHANGED <<cacheVars, now, max_age, ret, monitorVars, completed>>

CallGetAll(t) ==
  /\ pc[t] = "idle"
  /\ pc' = [pc EXCEPT ![t] = "ga_lock"]
  /\ UNCHANGED restVars
  /\ UNCHANGED <<cacheVars, now, clientVars, monitorVars, historyVars>>

CallIsStale(t) ==
  /\ pc[t] = "idle"
  /\ \E s \in 0..MaxAge : max_age' = [max_age EXCEPT ![t] = s]
  /\ pc' = [pc EXCEPT ![t] = "is_lock"]
  /\ UNCHANGED restVars
  /\ UNCHANGED <<cacheVars, now, new_data, ret, monitorVars, historyVars>>

\* time passes
Tick ==
  /\ now < MaxTime
  /\ now' = now + 1
  /\ UNCHANGED restVars
  /\ UNCHANGED <<cacheVars, pc, clientVars, monitorVars, historyVars>>

Writer(t) == CallReplaceAll(t) \/ replace_all(t)

Reader(t) == CallGetAll(t) \/ get_all(t) \/ CallIsStale(t) \/ is_stale(t)

NextCache ==
  \/ \E t \in Writers : Writer(t)
  \/ \E t \in Readers : Reader(t)
  \/ Tick

SpecCache == Init /\ [][NextCache]_vars

\* the steps of a cache method a client thread has called
method(t) == replace_all(t) \/ get_all(t) \/ is_stale(t)

\* the cache's clients alone: no step of a method waits for the clock
NextLock ==
  \/ \E t \in Writers : Writer(t)
  \/ \E t \in Readers : Reader(t)

\* a thread inside a call keeps running, and one waiting for the lock gets it
\* if the lock is free again and again
FairSpecCache ==
  Init /\ [][NextLock]_vars /\ \A t \in Clients : SF_vars(method(t))

(***************************************************************************)
(* BackgroundMonitorThread.                                                *)
(***************************************************************************)
\* what requests.get(url, timeout=3) can do: answer with a status code and a
\* body, raise a RequestException at once (connection refused), raise one
\* after the timeout (requests.exceptions.Timeout), or raise an exception
\* that is no RequestException
StatusCodes == {200, 500}

Outcomes ==
  { [kind |-> "response", status_code |-> 200, text |-> b] : b \in Bodies }
    \cup
  { [kind |-> k, status_code |-> 0, text |-> <<>>] :
      k \in {"request_exception", "timeout", "exception"} }
    \cup
  { [kind |-> "response", status_code |-> c, text |-> <<>>] :
      c \in StatusCodes \ {200} }

\* seconds an outcome takes
Duration(outcome) == IF outcome.kind = "timeout" THEN fetch_timeout ELSE 0

\* _check_proxy_status, status 200: backend info added to each parsed host
Enriched(hosts, backend) ==
  [h \in DOMAIN hosts |-> Entry(h, hosts[h].status, backend, FALSE)]

\* except requests.exceptions.RequestException
Caught(outcome) == outcome.kind \in {"request_exception", "timeout"}

\* _check_proxy_status(backend) when requests.get does `outcome`:
\*   raised   an exception leaves the function
\*   is_none  the function returns None
\*   hosts    the dict it returns otherwise
\*   calls    requests.get calls made
check_proxy_status(backend, outcome) ==
  IF outcome.kind = "response"
  THEN IF outcome.status_code = 200
       THEN [raised |-> FALSE, is_none |-> FALSE,
             hosts |-> Enriched(parse_prometheus_metrics(outcome.text), backend),
             calls |-> 1]
       ELSE [raised |-> FALSE, is_none |-> TRUE, hosts |-> EmptyDict, calls |-> 1]
  ELSE IF Caught(outcome)
       THEN [raised |-> FALSE, is_none |-> TRUE, hosts |-> EmptyDict, calls |-> 1]
       ELSE [raised |-> TRUE, is_none |-> TRUE, hosts |-> EmptyDict, calls |-> 1]

\* variant of the test: `if status is not None:`
NotNone(status) == ~status.is_none

\* `if status:` None and the empty dict are both false
Truthy(status) == ~status.is_none /\ DOMAIN status.hosts # {}

\* a placeholder that reports its host as up
PlaceholderUp(backend) == Entry(ProxyDownName(backend), 1, backend, TRUE)

\* the placeholder for a down backend
Placeholder(backend) == Entry(ProxyDownName(backend), 0, backend, TRUE)

\* variant of the merge: a host name already in new_cache_data keeps its entry
MergedFirstWins(data, backend, status) ==
  IF Truthy(status)
  THEN Update(status.hosts, data)
  ELSE Update(data, [k \in {ProxyDownName(backend)} |-> Placeholder(backend)])

\* one iteration of `for backend in self.backends`
Merged(data, backend, status) ==
  IF Truthy(status)
  THEN Update(data, status.hosts)
  ELSE Update(data, [k \in {ProxyDownName(backend)} |-> Placeholder(backend)])

\* the sleep without its lower limit
SleepTimeUnclamped(elapsed) == monitor_interval - elapsed

\* sleep_time = max(0, self.monitor_interval - elapsed)
SleepTime(elapsed) ==
  IF monitor_interval - elapsed > 0 THEN monitor_interval - elapsed ELSE 0

\* start(): a monitor whose previous thread is gone is started (again)
Start ==
  /\ ~running
  /\ pc[Monitor] \in {"unborn", "exited", "crashed"}
  /\ running' = TRUE
  /\ pc' = [pc EXCEPT ![Monitor] = "loop"]
  /\ UNCHANGED restVars
  /\ UNCHANGED <<cacheVars, now, clientVars, backend_idx, new_cache_data,
                 start_time, fetched, cycles, installs, historyVars>>

\* stop(): the flag is cleared; the bounded join changes no state
Stop ==
  /\ running
  /\ running' = FALSE
  /\ UNCHANGED restVars
  /\ UNCHANGED <<cacheVars, now, pc, clientVars, backend_idx, new_cache_data,
                 start_time, fetched, cycles, installs, historyVars>>

\* the monitor calls self.cache.replace_all(new_cache_data)
Install(data) ==
  /\ new_data' = [new_data EXCEPT ![Monitor] = data]
  /\ pc' = [pc EXCEPT ![Monitor] = "ra_lock"]

\* a loop that goes on whatever the flag says
KeepsRunningRegardless == TRUE

\* while self.running
KeepsRunning == running

\* while self.running: true; a cycle begins
BeginCycle ==
  /\ pc[Monitor] = "loop"
  /\ KeepsRunning
  /\ cycles < MaxCycles
  /\ cycles' = cycles + 1
  /\ start_time' = now
  /\ new_cache_data' = EmptyDict
  /\ backend_idx' = 1
  /\ fetched' = <<>>
  /\ IF Len(Backends) = 0
     THEN Install(EmptyDict)
     ELSE /\ pc' = [pc EXCEPT ![Monitor] = "check"]
          /\ UNCHANGED new_data
  /\ UNCHANGED restVars
  /\ UNCHANGED <<cacheVars, now, max_age, ret, running, installs, historyVars>>

\* while self.running: false; _monitor_loop returns
ExitLoop ==
  /\ pc[Monitor] = "loop"
  /\ ~running
  /\ pc' = [pc EXCEPT ![Monitor] = "exited"]
  /\ UNCHANGED restVars
  /\ UNCHANGED <<cacheVars, now, clientVars, monitorVars, historyVars>>

\* the body an agent that is reachable again answers with
Recovery == <<Line("rewol_host_up", "h2", 1)>>

\* whether the agent would answer another requests.get of the same cycle
\* with status 200 and the body Recovery, after a fetch that did not
\* succeed; an exception that is no RequestException ends the thread, so no
\* other attempt can follow it
Recovers(outcome) ==
  IF \/ outcome.kind = "response" /\ outcome.status_code = 200
     \/ outcome.kind = "exception"
  THEN {FALSE} ELSE BOOLEAN

\* what one check of a backend leaves behind: _check_proxy_status's result
\* for an outcome of requests.get, and the time the fetch took
Checked(backend, outcome, recovers) ==
  [kind |-> outcome.kind, status_code |-> outcome.status_code,
   duration |-> Duration(outcome), recovers |-> recovers,
   status |-> check_proxy_status(backend, outcome)]

\* the checks each configured backend can undergo
Checks ==
  [i \in 1..Len(Backends) |->
     UNION {{Checked(Backends[i], o, r) : r \in Recovers(o)} : o \in Outcomes}]

\* a loop left after its first backend
FirstBackendLast(idx) == idx = 1

\* a loop that takes any backend for the last one
AnyBackendLast(idx) == idx >= 1

\* `for backend in self.backends` is exhausted after the backend at idx
LastBackend(idx) == idx = Len(Backends)

\* the loop body for the backend at backend_idx: _check_proxy_status, then
\* the update of new_cache_data; after the last backend, replace_all is called
CheckBackend ==
  /\ pc[Monitor] = "check"
  /\ \E check \in Checks[backend_idx] :
       LET backend == Backends[backend_idx]
           status == check.status
           data == Merged(new_cache_data, backend, status)
       IN /\ now' = now + check.duration
          /\ fetched' = Append(fetched,
               [kind |-> check.kind, status_code |-> check.status_code,
                raised |-> status.raised, is_none |-> status.is_none,
                hosts |-> status.hosts, calls |-> status.calls,
                recovers |-> check.recovers, backend |-> backend.host])
          /\ IF status.raised
             THEN /\ pc' = [pc EXCEPT ![Monitor] = "crashed"]
                  /\ UNCHANGED <<new_cache_data, backend_idx, new_data>>
             ELSE /\ new_cache_data' = data
                  /\ backend_idx' = backend_idx + 1
                  /\ IF LastBackend(backend_idx)
                     THEN Install(data)
                     ELSE /\ pc' = [pc EXCEPT ![Monitor] = "check"]
                          /\ UNCHANGED new_data
  /\ UNCHANGED restVars
  /\ UNCHANGED <<cacheVars, max_age, ret, running, start_time, cycles,
                 installs, historyVars>>

\* time.sleep(sleep_time)
Sleep ==
  /\ pc[Monitor] = "sleep"
  /\ now' = now + SleepTime(now - start_time)
  /\ pc' = [pc EXCEPT ![Monitor] = "loop"]
  /\ UNCHANGED restVars
  /\ UNCHANGED <<cacheVars, clientVars, monitorVars, historyVars>>

monitor_loop == BeginCycle \/ ExitLoop \/ CheckBackend \/ replace_all(Monitor) \/ Sleep

Next == Start \/ Stop \/ monitor_loop

Spec == Init /\ [][Next]_vars

(***************************************************************************)
(* start() and stop() called from several threads (src/rewolserver/        *)
(* rewol.py:157-173).  Neither takes a lock, so each statement is a step   *)
(* of its own.  The body of a poll cycle is one step here: every fetch is  *)
(* bounded by its timeout and the sleep by monitor_interval.               *)
(***************************************************************************)
\* what the start/stop callers and the loop threads leave alone
cycleVars == <<backend_idx, new_cache_data, start_time, fetched, cycles,
               installs>>
pollVars == <<cacheVars, now, pc, clientVars, cycleVars, historyVars,
              credentialVars, forwarderVars, edgeVars,
                 referenceVars, hostMonitorVars, codecVars,
                 statusVars>>
settings == <<config, background_monitor>>

\* the thread objects whose run() is inside _monitor_loop
Executing == {m \in ThreadObjects : loop_pc[m] \in {"loop", "cycle"}}

\* the next thread object threading.Thread(...) constructs
NewThread == 1 + Cardinality({m \in ThreadObjects : loop_pc[m] # "none"})

\* the values a configuration file gives to a tunable: omitted, or a number
Tunables == {None, At(2), At(5)}

\* the tunables of the service section of a configuration file
Configs == [monitor_interval : Tunables, max_retries : Tunables \cup {At(3)}]

\* BackgroundMonitorThread.__init__(backends, cache): the tunables the new
\* object holds
BackgroundMonitorThread == [monitor_interval |-> monitor_interval]

\* main(): load_config, then BackgroundMonitorThread(BACKENDS, proxy_cache)
main ==
  /\ background_monitor = None
  /\ \E loaded \in Configs : config' = At(loaded)
  /\ background_monitor' = At(BackgroundMonitorThread)
  /\ UNCHANGED <<pollVars, running, thread, loop_pc, call_pc, starts>>

\* start(): if not self.running
StartTest(c) ==
  /\ background_monitor # None
  /\ call_pc[c] = "idle"
  /\ starts < MaxStarts
  /\ starts' = starts + 1
  /\ call_pc' = [call_pc EXCEPT ![c] = IF running THEN "idle" ELSE "start_set"]
  /\ UNCHANGED <<pollVars, settings, running, thread, loop_pc>>

\* start(): self.running = True
StartSet(c) ==
  /\ call_pc[c] = "start_set"
  /\ running' = TRUE
  /\ call_pc' = [call_pc EXCEPT ![c] = "start_create"]
  /\ UNCHANGED <<pollVars, settings, thread, loop_pc, starts>>

\* start(): self.thread = threading.Thread(target=self._monitor_loop, ...)
StartCreate(c) ==
  /\ call_pc[c] = "start_create"
  /\ thread' = At(NewThread)
  /\ loop_pc' = [loop_pc EXCEPT ![NewThread] = "created"]
  /\ call_pc' = [call_pc EXCEPT ![c] = "start_thread"]
  /\ UNCHANGED <<pollVars, settings, running, starts>>

\* start(): self.thread.start(); Thread.start raises RuntimeError for a
\* thread that has been started before
StartThread(c) ==
  /\ call_pc[c] = "start_thread"
  /\ IF loop_pc[thread[1]] = "created"
     THEN /\ loop_pc' = [loop_pc EXCEPT ![thread[1]] = "loop"]
          /\ call_pc' = [call_pc EXCEPT ![c] = "idle"]
     ELSE /\ call_pc' = [call_pc EXCEPT ![c] = "start_raised"]
          /\ UNCHANGED loop_pc
  /\ UNCHANGED <<pollVars, settings, running, thread, starts>>

\* stop(): self.running = False
StopClear(c) ==
  /\ background_monitor # None
  /\ call_pc[c] = "idle"
  /\ call_pc' = [call_pc EXCEPT ![c] = "stop_join"]
  /\ running' = FALSE
  /\ UNCHANGED <<pollVars, settings, thread, loop_pc, starts>>

\* stop(): if self.thread: self.thread.join(timeout=5), which returns when
\* the thread has ended or the timeout has passed, and raises RuntimeError
\* for a thread that has not been started
StopJoin(c) ==
  /\ call_pc[c] = "stop_join"
  /\ call_pc' = [call_pc EXCEPT ![c] =
       IF thread # None /\ loop_pc[thread[1]] = "created"
       THEN "stop_raised" ELSE "stop_return"]
  /\ UNCHANGED <<pollVars, settings, running, thread, loop_pc, starts>>

\* start() or stop() is left, by return or by the exception it raised
Leave(c) ==
  /\ call_pc[c] \in {"start_raised", "stop_raised", "stop_return"}
  /\ call_pc' = [call_pc EXCEPT ![c] = "idle"]
  /\ UNCHANGED <<pollVars, settings, running, thread, loop_pc, starts>>

start(c) == StartTest(c) \/ StartSet(c) \/ StartCreate(c) \/ StartThread(c)

stop(c) == StopClear(c) \/ StopJoin(c)

\* _monitor_loop: while self.running
LoopTest(m) ==
  /\ loop_pc[m] = "loop"
  /\ loop_pc' = [loop_pc EXCEPT ![m] = IF running THEN "cycle" ELSE "exited"]
  /\ UNCHANGED <<pollVars, settings, running, thread, call_pc, starts>>

\* _monitor_loop: one poll cycle and its sleep; an exception that
\* _check_proxy_status does not catch ends the thread
LoopCycle(m) ==
  /\ loop_pc[m] = "cycle"
  /\ \E end \in {"loop", "crashed"} : loop_pc' = [loop_pc EXCEPT ![m] = end]
  /\ UNCHANGED <<pollVars, settings, running, thread, call_pc, starts>>

loop_thread(m) == LoopTest(m) \/ LoopCycle(m)

NextControl ==
  \/ main
  \/ \E c \in Callers : start(c) \/ stop(c) \/ Leave(c)
  \/ \E m \in ThreadObjects : loop_thread(m)

SpecControl == Init /\ [][NextControl]_vars

(***************************************************************************)
(* verify_password (src/rewolserver/rewol.py:176-193, the same code in     *)
(* src/rewolproxy/rewolproxy.py:231-248).  A str or bytes argument is      *)
(* None or At(sequence).  base64 is scaled down: one character per byte,   *)
(* padded with "=" to a multiple of two characters; as in Python's         *)
(* b64decode without validate, characters outside the alphabet are         *)
(* discarded before the padding is checked.  pbkdf2_hmac is an injective   *)
(* function of password and salt giving a digest of fixed length.          *)
(***************************************************************************)
\* the base64 character of a byte, the padding character, and a character
\* outside the base64 alphabet
Chr(byte) == [kind |-> "b64", v |-> byte]
Pad == [kind |-> "pad", v |-> <<>>]
Junk == [kind |-> "other", v |-> <<>>]

\* base64.b64encode(data).decode("utf-8")
b64encode(data) ==
  LET chars == [i \in 1..Len(data) |-> Chr(data[i])]
  IN IF Len(data) % 2 = 0 THEN chars ELSE Append(chars, Pad)

\* base64.b64decode(s): TypeError for None, binascii.Error for a wrong
\* padding
b64decode(s) ==
  IF s = None THEN [raised |-> TRUE, bytes |-> <<>>]
  ELSE LET kept == SelectSeq(s[1], LAMBDA c : c.kind # "other")
           data == SelectSeq(kept, LAMBDA c : c.kind = "b64")
       IN IF Len(kept) % 2 # 0
          THEN [raised |-> TRUE, bytes |-> <<>>]
          ELSE [raised |-> FALSE, bytes |-> [i \in 1..Len(data) |-> data[i].v]]

\* input_password.encode("utf-8"): AttributeError for None
encode(string) ==
  IF string = None THEN [raised |-> TRUE, bytes |-> <<>>]
  ELSE [raised |-> FALSE,
        bytes |-> IF string[1] = "" THEN <<>> ELSE <<string[1]>>]

\* a digest that leaves the password out
pbkdf2_unkeyed(password_bytes, salt_bytes) == << <<salt_bytes, salt_bytes>> >>

\* hashlib.pbkdf2_hmac("sha256", password_bytes, salt_bytes, 600000)
pbkdf2_hmac(password_bytes, salt_bytes) == << <<password_bytes, salt_bytes>> >>

\* an exception in the try block taken for a match
RaisedAccepted == TRUE

\* verify_password's result when the try block raises
WhenRaised == FALSE

verify_password(input_password, stored_hash, salt) ==
  LET salt_bytes == b64decode(salt)
      password_bytes == encode(input_password)
  IN IF salt_bytes.raised \/ password_bytes.raised
     THEN WhenRaised
     ELSE LET hashed == pbkdf2_hmac(password_bytes.bytes, salt_bytes.bytes)
              hashed_b64 == b64encode(hashed)
          IN At(hashed_b64) = stored_hash

\* generatepwdandsalt.py: the stored hash of a password under a salt
hash_password(password, salt) ==
  b64encode(pbkdf2_hmac(encode(password).bytes, b64decode(salt).bytes))

\* passwords offered to verify_password
Passwords == {None, At(""), At("p"), At("q")}

\* salts as bytes
SaltBytes == {<<>>, << <<1>> >>, << <<1>>, <<2>> >>}

\* generate_salt's results for these bytes
GeneratedSalts == {At(b64encode(b)) : b \in SaltBytes}

\* the texts handed to verify_password as salt: generated salts, the same
\* with a character outside the alphabet appended, a text of wrong padding,
\* and None
Salts ==
  {None, At(<<Chr(<<1>>)>>)}
    \cup GeneratedSalts
    \cup {At(Append(s[1], Junk)) : s \in GeneratedSalts}

\* stored hashes: generated ones, the empty string, a text that is no hash,
\* and None
Hashes ==
  {None, At(<<>>), At(<<Junk>>)}
    \cup {At(hash_password(p, s)) : p \in Passwords \ {None}, s \in GeneratedSalts}

\* one call of verify_password
CallVerify ==
  \E input_password \in Passwords, stored_hash \in Hashes, salt \in Salts :
    /\ verify_args' = At(<<input_password, stored_hash, salt>>)
    /\ verify_ret' = At(verify_password(input_password, stored_hash, salt))
    /\ UNCHANGED <<cacheVars, now, pc, clientVars, monitorVars, historyVars,
                   controlVars, forwarderVars, edgeVars,
                 referenceVars, hostMonitorVars, codecVars,
                 statusVars>>

NextCredential == CallVerify

SpecCredential == Init /\ [][NextCredential]_vars

(***************************************************************************)
(* send_wol, the aggregator's POST /wol (src/rewolserver/rewol.py:         *)
(* 285-325).  A form field is None or At(string).                          *)
(***************************************************************************)
\* what the aggregator and its callers leave alone while a /wol is handled
serverVars == <<cacheVars, now, pc, clientVars, monitorVars, historyVars,
                controlVars, credentialVars, edgeVars,
                 referenceVars, hostMonitorVars, codecVars,
                 statusVars>>

\* the aggregator's own credential, from the service section of the
\* configuration
SERVICE_SALT == At(b64encode(<< <<1>>, <<2>> >>))
SERVICE_PASSWORD == At(hash_password(At("p"), SERVICE_SALT))

\* the values a caller can give to a field other than the password
Fields(values) == {None} \cup {At(v) : v \in values}

\* the forms a /wol request can carry
Forms ==
  [host : Fields({"h1", "h2"}),
   backend_address : Fields({b.address : b \in {Backends[i] : i \in DOMAIN Backends}}
                              \cup {"10.6.6.6:80"}),
   backend_password : Fields({b.password : b \in {Backends[i] : i \in DOMAIN Backends}}
                               \cup {"guess"}),
   password : Passwords]

\* what requests.post can do: a response with a status code, or a
\* requests.exceptions.RequestException (connection error, timeout,
\* invalid URL)
PostOutcomes ==
  {[kind |-> "response", status_code |-> c] : c \in {200, 201, 401, 404, 500}}
    \cup {[kind |-> "request_exception", status_code |-> 0]}

\* an f-string's rendering of a form field
Formatted(field) == IF field = None THEN "None" ELSE field[1]

\* the call requests.post(url, data={"host": ..., "password": ...}, timeout=5)
Post(f) ==
  [address |-> Formatted(f.backend_address),
   host |-> f.host, password |-> f.backend_password]

\* the response body and status send_wol returns
Response(status, success, text, detail) ==
  [status |-> status, success |-> success, text |-> text, detail |-> detail]

\* a mapping that takes every 2xx answer for success
MappedAny2xx(outcome) ==
  IF outcome.kind = "response"
  THEN CASE outcome.status_code \in {200, 201} ->
              Response(200, TRUE, "WOL command sent successfully", 0)
         [] outcome.status_code = 401 ->
              Response(401, FALSE, "Backend authentication failed", 0)
         [] outcome.status_code = 404 ->
              Response(404, FALSE, "Host not found on backend", 0)
         [] OTHER ->
              Response(500, FALSE, "Backend error", outcome.status_code)
  ELSE Response(500, FALSE, "Connection error", outcome.kind)

\* the response send_wol maps an outcome of requests.post to
Mapped(outcome) ==
  IF outcome.kind = "response"
  THEN CASE outcome.status_code = 201 ->
              Response(200, TRUE, "WOL command sent successfully", 0)
         [] outcome.status_code = 401 ->
              Response(401, FALSE, "Backend authentication failed", 0)
         [] outcome.status_code = 404 ->
              Response(404, FALSE, "Host not found on backend", 0)
         [] OTHER ->
              Response(500, FALSE, "Backend error", outcome.status_code)
  ELSE Response(500, FALSE, "Connection error", outcome.kind)

\* a forwarder that posts again when the transport failed
AfterPostRetried(outcome) ==
  IF outcome.kind = "request_exception" THEN "post" ELSE "done"

\* where send_wol continues once requests.post has returned or raised:
\* every branch returns
AfterPost(outcome) == "done"

\* a POST /wol arrives
Receive ==
  /\ wol_pc \in {"idle", "done"}
  /\ \E f \in Forms : form' = At(f)
  /\ posted' = <<>>
  /\ downstream' = None
  /\ reply' = None
  /\ wol_pc' = "verify"
  /\ UNCHANGED serverVars

\* a forwarder that also refuses a host the cache does not report as up
AuthorizeListed ==
  /\ wol_pc = "verify"
  /\ IF /\ verify_password(form[1].password, SERVICE_PASSWORD, SERVICE_SALT)
        /\ \E k \in DOMAIN cache : form[1].host = At(k) /\ cache[k].status = 1
     THEN wol_pc' = "post" /\ UNCHANGED reply
     ELSE /\ wol_pc' = "done"
          /\ reply' = At(Response(401, FALSE, "Invalid password", 0))
  /\ UNCHANGED <<serverVars, form, posted, downstream>>

\* if not verify_password(input_password, SERVICE_PASSWORD, SERVICE_SALT)
Authorize ==
  /\ wol_pc = "verify"
  /\ IF verify_password(form[1].password, SERVICE_PASSWORD, SERVICE_SALT)
     THEN wol_pc' = "post" /\ UNCHANGED reply
     ELSE /\ wol_pc' = "done"
          /\ reply' = At(Response(401, FALSE, "Invalid password", 0))
  /\ UNCHANGED <<serverVars, form, posted, downstream>>

\* requests.post and the mapping of what it did
Forward ==
  /\ wol_pc = "post"
  /\ \E outcome \in PostOutcomes :
       /\ downstream' = At(outcome)
       /\ reply' = At(Mapped(outcome))
       /\ wol_pc' = AfterPost(outcome)
  /\ posted' = Append(posted, Post(form[1]))
  /\ UNCHANGED <<serverVars, form>>

send_wol == Receive \/ Authorize \/ Forward

NextForwarder == send_wol

SpecForwarder == Init /\ [][NextForwarder]_vars

(***************************************************************************)
(* RequestHandler.do_POST for /wol, the edge agent's wake endpoint         *)
(* (src/rewolproxy/rewolproxy.py:283-347).  HTTPServer handles one request *)
(* at a time.                                                              *)
(***************************************************************************)
\* what the edge agent leaves alone
aggregatorVars == <<cacheVars, now, pc, clientVars, monitorVars, historyVars,
                    controlVars, credentialVars, forwarderVars,
                 referenceVars, hostMonitorVars, codecVars,
                 statusVars>>

\* the hosts section of the edge agent's configuration
Hosts ==
  << [host |-> "pc1", macAddress |-> "aa:aa:aa:aa:aa:01", interface |-> None],
     [host |-> "pc2", macAddress |-> "aa:aa:aa:aa:aa:02",
      interface |-> At("eth0")] >>

\* the password section of the edge agent's configuration
password_config ==
  LET salt == At(b64encode(<< <<2>> >>))
  IN [hash |-> At(hash_password(At("q"), salt)), salt |-> salt]

\* the /wol requests: whether Content-Length and body can be read as a
\* number and as UTF-8, and the form fields of the body
Requests ==
  [readable : BOOLEAN,
   host : Fields({"", "pc1", "pc2", "ghost"}),
   password : Passwords]

\* parse_qs(post_data), then params.get(name, [None])[0]: parse_qs drops a
\* field whose value is blank
parse_qs(field) == IF field = At("") THEN None ELSE field

\* a lookup that takes the first configured host for an unknown name
LookupOrFirst(host_name) ==
  LET found == {i \in DOMAIN Hosts : At(Hosts[i].host) = host_name}
  IN IF found = {} THEN At(Hosts[1])
     ELSE At(Hosts[CHOOSE i \in found : \A j \in found : i <= j])

\* the loop over self.config.get_hosts(): the first host of that name, or
\* None
Lookup(host_name) ==
  LET found == {i \in DOMAIN Hosts : At(Hosts[i].host) = host_name}
  IN IF found = {} THEN None
     ELSE At(Hosts[CHOOSE i \in found : \A j \in found : i <= j])

\* self._send_response(status_code, content)
Respond(status_code, content) ==
  /\ responses' = Append(responses, [status |-> status_code, content |-> content])
  /\ edge_pc' = "done"

\* a POST /wol arrives at the edge agent
EdgeReceive ==
  /\ edge_pc \in {"idle", "done", "aborted"}
  /\ \A h \in DOMAIN host_wol : host_wol[h] < MaxWol
  /\ \E r \in Requests : request' = At(r)
  /\ wol_before' = host_wol
  /\ packets' = <<>>
  /\ responses' = <<>>
  /\ edge_pc' = "read"
  /\ UNCHANGED <<aggregatorVars, host_wol>>

\* int(self.headers.get("Content-Length", 0)) and
\* self.rfile.read(content_length).decode("utf-8"), which stand before the
\* try: an exception here leaves do_POST without a response
Read ==
  /\ edge_pc = "read"
  /\ edge_pc' = IF request[1].readable THEN "params" ELSE "aborted"
  /\ UNCHANGED <<aggregatorVars, request, host_wol, wol_before, packets,
                 responses>>

\* if not host_name or not password
CheckParams ==
  /\ edge_pc = "params"
  /\ IF parse_qs(request[1].host) = None \/ parse_qs(request[1].password) = None
     THEN Respond(400, "Missing host or password parameter")
     ELSE edge_pc' = "verify" /\ UNCHANGED responses
  /\ UNCHANGED <<aggregatorVars, request, host_wol, wol_before, packets>>

\* if not verify_password(password, password_config["hash"], ...)
CheckPassword ==
  /\ edge_pc = "verify"
  /\ IF verify_password(parse_qs(request[1].password), password_config.hash,
                        password_config.salt)
     THEN edge_pc' = "lookup" /\ UNCHANGED responses
     ELSE Respond(401, "Unauthorized")
  /\ UNCHANGED <<aggregatorVars, request, host_wol, wol_before, packets>>

\* if not host_found
CheckHost ==
  /\ edge_pc = "lookup"
  /\ IF Lookup(parse_qs(request[1].host)) = None
     THEN Respond(404, "Host not found")
     ELSE edge_pc' = "send" /\ UNCHANGED responses
  /\ UNCHANGED <<aggregatorVars, request, host_wol, wol_before, packets>>

\* a counter set to one instead of counted up
wol_counter_set(counters, host_name) == [counters EXCEPT ![host_name] = 1]

\* MetricsManager.increment_wol_counter: current_value, then
\* set(current_value + 1)
increment_wol_counter(counters, host_name) ==
  [counters EXCEPT ![host_name] = counters[host_name] + 1]

\* wakeonlan.send_magic_packet, increment_wol_counter and the 201; or
\* send_magic_packet raises and the inner except answers 500
Dispatch ==
  /\ edge_pc = "send"
  /\ LET host_found == Lookup(parse_qs(request[1].host))[1]
     IN \/ /\ packets' = Append(packets, [macAddress |-> host_found.macAddress,
                                          interface |-> host_found.interface])
           /\ host_wol' = increment_wol_counter(host_wol, host_found.host)
           /\ Respond(201, "WOL signal sent successfully")
        \/ /\ Respond(500, "Error sending WOL signal")
           /\ UNCHANGED <<packets, host_wol>>
  /\ UNCHANGED <<aggregatorVars, request, wol_before>>

do_POST == Read \/ CheckParams \/ CheckPassword \/ CheckHost \/ Dispatch

NextEdge == EdgeReceive \/ do_POST

SpecEdge == Init /\ [][NextEdge]_vars

(***************************************************************************)
(* ProxyStatusCache by reference (src/rewolserver/rewol.py:54-76).  The    *)
(* entries of a mapping are dict objects: new_data.copy() and              *)
(* self.cache.copy() copy the mapping and share its entries.  Every call   *)
(* runs under self.lock and is one step here.                              *)
(***************************************************************************)
\* the contents of the entries a mapping refers to
Deref(objects, refs) == [k \in DOMAIN refs |-> objects[refs[k]]]

\* dict.copy(): a new mapping of the same entry objects
Copy(refs) == [k \in DOMAIN refs |-> refs[k]]

\* the entries of new_data stamped one by one, where they are
StampedInPlace(objects, refs, time) ==
  [o \in DOMAIN objects |->
     IF \E k \in DOMAIN refs : refs[k] = o
     THEN [objects[o] EXCEPT !.last_checked = At(time)]
     ELSE objects[o]]

\* entries created for a mapping with the contents of data
Allocated(objects, data) ==
  LET names == DOMAIN data
      last == Len(objects) + Cardinality(names)
      slot == CHOOSE f \in [names -> (Len(objects) + 1)..last] :
                \A j, k \in names : f[j] = f[k] => j = k
  IN [refs |-> slot,
      objects |-> [o \in 1..last |->
                     IF o <= Len(objects) THEN objects[o]
                     ELSE data[CHOOSE k \in names : slot[k] = o]]]

\* a caller builds a mapping of new entries
BuildData ==
  \E d \in ClientData :
    /\ Len(heap) + Cardinality(DOMAIN d) <= MaxObjects
    /\ LET a == Allocated(heap, d)
       IN heap' = a.objects /\ caller_data' = At(a.refs)
    /\ UNCHANGED <<cache_ref, snapshot, seen>>
    /\ UNCHANGED <<cacheVars, now, pc, clientVars, monitorVars, historyVars,
                   controlVars, credentialVars, forwarderVars, edgeVars,
                   hostMonitorVars, codecVars,
                 statusVars>>

\* replace_all(new_data) with the mapping the caller holds
ReplaceAllData ==
  /\ caller_data # None
  /\ lock = "free"
  /\ LET new == caller_data[1]
     IN /\ heap' = StampedInPlace(heap, new, now)
        /\ cache_ref' = Copy(new)
        /\ cache' = Deref(heap', new)
  /\ last_updated' = At(now)
  /\ UNCHANGED <<caller_data, snapshot, seen>>
  /\ UNCHANGED <<lock, now, pc, clientVars, monitorVars, historyVars,
                 controlVars, credentialVars, forwarderVars, edgeVars,
                   hostMonitorVars, codecVars,
                 statusVars>>

\* one poll cycle: new_cache_data = {} filled with new entries, then
\* replace_all(new_cache_data)
PollCycle ==
  \E d \in ClientData :
    /\ Len(heap) + Cardinality(DOMAIN d) <= MaxObjects
    /\ lock = "free"
    /\ LET a == Allocated(heap, d)
       IN /\ heap' = StampedInPlace(a.objects, a.refs, now)
          /\ cache_ref' = Copy(a.refs)
          /\ cache' = Deref(heap', a.refs)
    /\ last_updated' = At(now)
    /\ UNCHANGED <<caller_data, snapshot, seen>>
    /\ UNCHANGED <<lock, now, pc, clientVars, monitorVars, historyVars,
                   controlVars, credentialVars, forwarderVars, edgeVars,
                   hostMonitorVars, codecVars,
                 statusVars>>

\* get_all(): the caller keeps the "hosts" mapping returned
GetAllSnapshot ==
  /\ lock = "free"
  /\ snapshot' = At(Copy(cache_ref))
  /\ seen' = At(Deref(heap, cache_ref))
  /\ UNCHANGED <<heap, caller_data, cache_ref>>
  /\ UNCHANGED <<cacheVars, now, pc, clientVars, monitorVars, historyVars,
                 controlVars, credentialVars, forwarderVars, edgeVars,
                   hostMonitorVars, codecVars,
                 statusVars>>

NextSnapshot ==
  \/ BuildData
  \/ ReplaceAllData
  \/ PollCycle
  \/ GetAllSnapshot
  \/ Tick

SpecSnapshot == Init /\ [][NextSnapshot]_vars

(***************************************************************************)
(* The Flask application while the poller runs: /wol requests are handled  *)
(* between and during poll cycles (src/rewolserver/rewol.py:235-236,       *)
(* 285-325).                                                               *)
(***************************************************************************)
NextService == send_wol \/ PollCycle

SpecService == Init /\ [][NextService]_vars

(***************************************************************************)
(* HostMonitor, the edge agent's ping loop (src/rewolproxy/rewolproxy.py:  *)
(* 163-228).  start() and stop() are called one after the other; every     *)
(* thread start() created runs _monitor_loop on the same HostMonitor.      *)
(***************************************************************************)
\* what the host monitor leaves alone
agentVars == <<cacheVars, now, pc, clientVars, monitorVars, historyVars,
               controlVars, credentialVars, forwarderVars, edgeVars,
               referenceVars, codecVars,
                 statusVars>>

\* if not self.running
NotStarted == ~hm_running

\* HostMonitor.start(): a call that finds the flag set does nothing
HostMonitorStart ==
  /\ NotStarted
  /\ \E m \in ThreadObjects :
       /\ hm_pc[m] = "unborn"
       /\ \A n \in ThreadObjects : n < m => hm_pc[n] # "unborn"
       /\ hm_pc' = [hm_pc EXCEPT ![m] = "test"]
  /\ hm_running' = TRUE
  /\ UNCHANGED <<agentVars, host_up, hm_idx>>

\* HostMonitor.stop(): clears the flag and does not join the thread
HostMonitorStop ==
  /\ hm_running
  /\ hm_running' = FALSE
  /\ UNCHANGED <<agentVars, host_up, hm_pc, hm_idx>>

\* while self.running
HostMonitorTest(m) ==
  /\ hm_pc[m] = "test"
  /\ hm_pc' = [hm_pc EXCEPT ![m] = IF hm_running THEN "ping" ELSE "exited"]
  /\ hm_idx' = [hm_idx EXCEPT ![m] = 1]
  /\ UNCHANGED <<agentVars, host_up, hm_running>>

\* is_up = self._ping_host(ip); update_host_status(host_name, is_up)
HostMonitorPing(m) ==
  /\ hm_pc[m] = "ping"
  /\ \E is_up \in BOOLEAN :
       host_up' = [host_up EXCEPT ![Hosts[hm_idx[m]].host] =
                     IF is_up THEN 1 ELSE 0]
  /\ IF hm_idx[m] = Len(Hosts)
     THEN hm_pc' = [hm_pc EXCEPT ![m] = "sleep"] /\ UNCHANGED hm_idx
     ELSE hm_idx' = [hm_idx EXCEPT ![m] = @ + 1] /\ UNCHANGED hm_pc
  /\ UNCHANGED <<agentVars, hm_running>>

\* time.sleep(sleep_time)
HostMonitorSleep(m) ==
  /\ hm_pc[m] = "sleep"
  /\ hm_pc' = [hm_pc EXCEPT ![m] = "test"]
  /\ UNCHANGED <<agentVars, host_up, hm_running, hm_idx>>

host_monitor_loop(m) ==
  HostMonitorTest(m) \/ HostMonitorPing(m) \/ HostMonitorSleep(m)

NextHostMonitor ==
  \/ HostMonitorStart
  \/ HostMonitorStop
  \/ \E m \in ThreadObjects : host_monitor_loop(m)

SpecHostMonitor == Init /\ [][NextHostMonitor]_vars

\* the edge agent as main() runs it: the host monitor started once, and the
\* HTTP server handling /wol requests
NextAgent ==
  \/ HostMonitorStart
  \/ host_monitor_loop(1)
  \/ EdgeReceive
  \/ do_POST

SpecAgent == Init /\ [][NextAgent]_vars

(***************************************************************************)
(* parse_prometheus_metrics on text (src/rewolserver/rewol.py:196-207).    *)
(* A text is a sequence of tokens: the family name rewol_host_up, the      *)
(* label opening {host=" and closing "}, blanks, newlines, digits and      *)
(* other runs of characters without a quote.  re.findall scans the text    *)
(* from left to right for                                                  *)
(*   rewol_host_up\{host="([^"]+)"\}\s+([01])                              *)
(* wherever it begins, also in the middle of a line.                       *)
(***************************************************************************)
FamilyName == "rewol_host_up"
LabelOpen == "{host=''"
LabelClose == "''}"
Blank == " "
Newline == "NL"

\* the tokens that hold a quote
Quoted == {LabelOpen, LabelClose}

\* [^"]: a token without a quote
Quoteless(token) == token \notin Quoted

\* \s
Whitespace == {Blank, Newline}

\* a greedy repetition: the first position from i on whose token is not of
\* the class (in the set, or outside it), or Len + 1
RunEnd(text, i, tokens, inside) ==
  CHOOSE j \in i..(Len(text) + 1) :
    /\ \A n \in i..(j - 1) : (text[n] \in tokens) = inside
    /\ j <= Len(text) => (text[j] \in tokens) # inside

\* the match of the pattern that begins at position i, if there is one:
\* the host group, the status group and the position after the match
MatchAt(text, i) ==
  IF /\ i + 1 <= Len(text)
     /\ text[i] = FamilyName
     /\ text[i + 1] = LabelOpen
  THEN LET j == RunEnd(text, i + 2, Quoted, FALSE)
           k == RunEnd(text, j + 1, Whitespace, TRUE)
       IN IF /\ j > i + 2
             /\ j <= Len(text)
             /\ text[j] = LabelClose
             /\ k > j + 1
             /\ k <= Len(text)
             /\ text[k] \in {"0", "1"}
          THEN At([host |-> SubSeq(text, i + 2, j - 1),
                   status |-> IF text[k] = "1" THEN 1 ELSE 0,
                   end |-> k + 1])
          ELSE None
  ELSE None

\* for host, status in re.findall(...): hosts[host] = {"status": ..., "name":
\* host}
RECURSIVE findall_from(_, _, _)
findall_from(text, i, hosts) ==
  IF i > Len(text) THEN hosts
  ELSE LET m == MatchAt(text, i)
       IN IF m = None THEN findall_from(text, i + 1, hosts)
          ELSE findall_from(text, m[1].end,
                 [h \in DOMAIN hosts \cup {m[1].host} |->
                    IF h = m[1].host
                    THEN [status |-> m[1].status, name |-> h]
                    ELSE hosts[h]])

parse_metrics_text(text) == findall_from(text, 1, EmptyDict)

\* the lines a /status body is made of here
TextLines ==
  { <<FamilyName, LabelOpen, "h1", LabelClose, Blank, "1">>,
    <<FamilyName, LabelOpen, "h1", LabelClose, Blank, "0">>,
    <<FamilyName, LabelOpen, "h2", LabelClose, Blank, "1">>,
    <<"rewol_host_wol", LabelOpen, "h1", LabelClose, Blank, "1">>,
    <<"old_", FamilyName, LabelOpen, "h2", LabelClose, Blank, "0">>,
    <<FamilyName, LabelOpen, "h2", LabelClose, Blank, "2">>,
    <<FamilyName, LabelOpen, LabelClose, Blank, "1">>,
    <<FamilyName, LabelOpen, "h1", LabelClose>>,
    <<FamilyName, Blank, "1">>,
    <<"#", Blank, "HELP", Blank, FamilyName, Blank, "h1">> }

\* the lines joined by newlines
RECURSIVE Joined(_)
Joined(lines) ==
  IF lines = <<>> THEN <<>>
  ELSE IF Len(lines) = 1 THEN lines[1]
  ELSE lines[1] \o <<Newline>> \o Joined(Tail(lines))

Texts == { Joined(ls) : ls \in UNION { [1..n -> TextLines] : n \in 0..MaxLines } }

\* one call of parse_prometheus_metrics
CallParse ==
  /\ \E text \in Texts :
       /\ metrics_text' = At(text)
       /\ metrics_hosts' = At(parse_metrics_text(text))
  /\ UNCHANGED <<cacheVars, now, pc, clientVars, monitorVars, historyVars,
                 controlVars, credentialVars, forwarderVars, edgeVars,
                 referenceVars, hostMonitorVars, statusVars>>

SpecCodec == Init /\ [][CallParse]_vars

(***************************************************************************)
(* api_status, GET /api/status (src/rewolserver/rewol.py:260-282), while   *)
(* other threads call replace_all.  get_all() and is_stale() each run      *)
(* under the lock and are one step each here; between them the lock is     *)
(* free.  A timestamp stands for its isoformat() text.                     *)
(***************************************************************************)
\* what api_status leaves alone
viewVars == <<cacheVars, now, pc, clientVars, monitorVars, historyVars,
              controlVars, credentialVars, forwarderVars, edgeVars,
              referenceVars, hostMonitorVars, codecVars>>

\* cache_data = proxy_cache.get_all() and the list of its host entries
ApiStatusGetAll ==
  /\ api_pc \in {"idle", "done"}
  /\ lock = "free"
  /\ api_response' = At([hosts |-> cache, last_updated |-> last_updated])
  /\ api_pc' = "cache_info"
  /\ UNCHANGED viewVars

\* "is_stale": proxy_cache.is_stale(), "host_count":
\* len(cache_data["hosts"]), and jsonify
ApiStatusCacheInfo ==
  /\ api_pc = "cache_info"
  /\ lock = "free"
  /\ api_response' =
       At([hosts |-> api_response[1].hosts,
           last_updated |-> api_response[1].last_updated,
           is_stale |-> StaleAt(now, last_updated, default_max_age),
           host_count |-> Cardinality(DOMAIN api_response[1].hosts)])
  /\ api_pc' = "done"
  /\ UNCHANGED viewVars

api_status == ApiStatusGetAll \/ ApiStatusCacheInfo

NextStatus ==
  \/ \E t \in Writers : Writer(t)
  \/ Tick
  \/ api_status

SpecStatus == Init /\ [][NextStatus]_vars

(***************************************************************************)
(* Properties.                                                             *)
(***************************************************************************)
\* a reader holds the value get_all is about to return
Returning(r) == pc[r] = "ga_unlock"

\* the argument of the last replace_all call that completed
LastCompleted ==
  IF completed = <<>> THEN EmptyDict ELSE completed[Len(completed)]

\* C1 (SpecCache). Replacement atomicity: whatever the interleaving of the
\* writers' replace_all calls with a reader's get_all, the mapping get_all
\* returns is the complete argument of one replace_all call, or the initial
\* empty mapping; never a mix of the entries of two calls.
ReplacementAtomicity ==
  \A r \in Readers :
    Returning(r) => Unstamped(ret[r].hosts) \in issued \cup {EmptyDict}

\* a reader returns a non-empty snapshot while a writer is waiting to install
\* a different mapping and another replace_all has already completed
WitnessReplacementAtomicity ==
  \E r \in Readers, w \in Writers :
    /\ Returning(r)
    /\ DOMAIN ret[r].hosts # {}
    /\ pc[w] = "ra_lock"
    /\ new_data[w] # Unstamped(ret[r].hosts)
    /\ new_data[w] # EmptyDict
    /\ Len(completed) >= 1

\* C2 (SpecCache). Replace, don't merge: get_all returns exactly the key set
\* of the argument of the last completed replace_all, and so does the cache
\* whenever no replace_all is inside its critical section; no key of an
\* earlier snapshot survives.
ReplaceDontMerge ==
  /\ \A r \in Readers : Returning(r) => DOMAIN ret[r].hosts = DOMAIN LastCompleted
  /\ lock = "free" => DOMAIN cache = DOMAIN LastCompleted

\* a second replace_all has completed and get_all returns a snapshot without
\* a key the first one had installed
WitnessReplaceDontMerge ==
  \E r \in Readers :
    /\ Returning(r)
    /\ Len(completed) = 2
    /\ DOMAIN ret[r].hosts # {}
    /\ DOMAIN completed[1] \ DOMAIN ret[r].hosts # {}

\* a reader holds the value is_stale is about to return
ReturningStale(r) == pc[r] = "is_unlock"

Installed == pc[Monitor] = "sleep"

Snapshot == Unstamped(cache)

BackendIds == 1..Len(Backends)

\* backend i answered 200 in this cycle
Responded(i) == fetched[i].kind = "response" /\ fetched[i].status_code = 200

\* every fetch attempt for backend i failed in transport
TransportFailed(i) ==
  fetched[i].kind \in {"request_exception", "timeout", "exception"}

\* the host names backend i reported in this cycle
Reported(i) == IF Responded(i) THEN DOMAIN fetched[i].hosts ELSE {}

PlaceholderKey(i) == Backends[i].host \o " (proxy down)"

\* entry e carries the provenance of backend i
FromBackend(e, i) ==
  /\ e.backend_name = Backends[i].host
  /\ e.backend_address = Backends[i].address
  /\ e.backend_password = Backends[i].password

\* entry e is the placeholder of backend i
IsPlaceholder(e, i) ==
  /\ e.name = PlaceholderKey(i)
  /\ e.status = 0
  /\ e.is_proxy_down = TRUE
  /\ FromBackend(e, i)

\* the entries of the cache that name backend i as their backend
EntriesOf(i) == {k \in DOMAIN cache : cache[k].backend_name = Backends[i].host}

\* C4 (Spec). Down-backend synthesis: a backend that failed its fetch in a
\* cycle has exactly one entry in the snapshot that cycle installs, keyed and
\* named "<backend-name> (proxy down)", with status 0, is_proxy_down true and
\* the backend's name, address and secret.
DownBackendSynthesis ==
  Installed =>
    \A i \in BackendIds :
      ~Responded(i) =>
        /\ PlaceholderKey(i) \in DOMAIN cache
        /\ IsPlaceholder(cache[PlaceholderKey(i)], i)
        /\ EntriesOf(i) = {PlaceholderKey(i)}

\* C5 (Spec). Retry count: a backend whose fetch attempts all fail is tried
\* exactly max_retries times in the cycle, and the check then returns None.
RetryCount ==
  \A i \in 1..Len(fetched) :
    TransportFailed(i) =>
      /\ fetched[i].calls = max_retries
      /\ fetched[i].is_none
      /\ ~fetched[i].raised

\* no host name is reported by two backends in this cycle
DistinctReported ==
  \A i, j \in BackendIds : i # j => Reported(i) \cap Reported(j) = {}

\* C6 (Spec). Cycle result: when the reported names are distinct, the
\* snapshot a cycle installs is exactly the host entries of the backends
\* that responded, each with is_proxy_down false and its backend's
\* provenance, and one placeholder per backend that did not respond.
CycleResult ==
  (Installed /\ DistinctReported) =>
    /\ DOMAIN cache =
         UNION {Reported(i) : i \in BackendIds}
           \cup {PlaceholderKey(i) : i \in {j \in BackendIds : ~Responded(j)}}
    /\ \A i \in BackendIds :
         IF Responded(i)
         THEN \A k \in Reported(i) :
                /\ cache[k].name = k
                /\ cache[k].status = fetched[i].hosts[k].status
                /\ cache[k].is_proxy_down = FALSE
                /\ FromBackend(cache[k], i)
         ELSE IsPlaceholder(cache[PlaceholderKey(i)], i)

\* the backends that reported host name n in this cycle
Reporters(n) == {i \in BackendIds : n \in Reported(i)}

Last(S) == CHOOSE i \in S : \A j \in S : j <= i

\* C7 (Spec). Last-write-wins: a host name two backends report in one cycle
\* has a single entry in the installed snapshot, with the status and the
\* backend name, address and secret of the reporter that comes last in the
\* configured list.
LastWriteWins ==
  Installed =>
    \A n \in HostNames :
      Cardinality(Reporters(n)) >= 2 =>
        /\ n \in DOMAIN cache
        /\ {k \in DOMAIN cache : cache[k].name = n} = {n}
        /\ cache[n].status = fetched[Last(Reporters(n))].hosts[n].status
        /\ FromBackend(cache[n], Last(Reporters(n)))

\* both backends reported h1, with different statuses, and the snapshot has
\* the second backend's
WitnessLastWriteWins ==
  /\ Installed
  /\ Reporters("h1") = BackendIds
  /\ fetched[1].hosts["h1"].status = 1
  /\ fetched[2].hosts["h1"].status = 0
  /\ cache["h1"].status = 0
  /\ cache["h1"].backend_name = Backends[2].host

\* C8 (Spec), as claimed. Every configured backend has at least one entry in
\* every snapshot the monitor installs.
EveryBackendContributes ==
  Installed => \A i \in BackendIds : EntriesOf(i) # {}

\* the keys backend i's iteration of the loop writes
Contributed(i) ==
  IF Reported(i) # {} THEN Reported(i) ELSE {PlaceholderKey(i)}

\* the keys written after backend i's iteration
WrittenAfter(i) == UNION {Contributed(j) : j \in {x \in BackendIds : x > i}}

\* C8 (Spec), amended. Every configured backend has at least one entry in
\* the installed snapshot unless every key it wrote was written again by a
\* backend later in the list; a backend that did not respond, or reported no
\* host, has its placeholder.
EveryBackendContributesUnlessOverwritten ==
  Installed =>
    \A i \in BackendIds :
      /\ Contributed(i) \ WrittenAfter(i) # {} => EntriesOf(i) # {}
      /\ (Reported(i) = {} /\ PlaceholderKey(i) \notin WrittenAfter(i)) =>
           PlaceholderKey(i) \in EntriesOf(i)

\* the first backend was unreachable, the second reported a host, and both
\* have an entry in the installed snapshot
WitnessEveryBackendContributes ==
  /\ Installed
  /\ TransportFailed(1)
  /\ Reported(2) = {"h1"}
  /\ EntriesOf(1) = {PlaceholderKey(1)}
  /\ EntriesOf(2) = {"h1"}

\* C9 (Spec). Failure isolation: when a backend's fetch fails, the cycle is
\* not aborted, and the entries of the backends that responded are installed
\* as reported (a name reported again later aside).
FailureIsolation ==
  (\E j \in 1..Len(fetched) : ~Responded(j)) =>
    /\ pc[Monitor] # "crashed"
    /\ Installed =>
         \A a \in BackendIds : \A k \in Reported(a) :
           /\ k \in DOMAIN cache
           /\ (\A b \in BackendIds : b > a => k \notin Reported(b)) =>
                Snapshot[k] = fetched[a].hosts[k]

\* C10 (Spec). No fetch outcome terminates the monitor loop: whatever a fetch
\* yields, the thread goes on to replace_all and to the next cycle; it is never
\* ended by an exception.
LoopSurvivesEveryFetch ==
  /\ pc[Monitor] # "crashed"
  /\ \A i \in 1..Len(fetched) : ~fetched[i].raised


\* C11 (SpecControl). Single loop instance: whatever the sequence and
\* interleaving of start() and stop() calls on one BackgroundMonitorThread,
\* at most one thread is executing _monitor_loop at any time.
SingleLoopInstance == Cardinality(Executing) <= 1

\* a caller is about to leave stop() by its return statement
StopReturning(c) == call_pc[c] = "stop_return"

\* C12 (SpecControl). stop() always returns, and with running = False: no
\* stop() call is left by an exception, and at its return the flag is clear.
StopReturnsStopped ==
  \A c \in Callers :
    /\ call_pc[c] # "stop_raised"
    /\ StopReturning(c) => ~running

\* the scheduler runs every started thread: a loop thread that can take a
\* step eventually takes one
FairSpecControl ==
  SpecControl /\ \A m \in ThreadObjects : WF_vars(loop_thread(m))

\* once the flag stays clear (a stop() with no later start()), every thread
\* executing _monitor_loop eventually leaves it for good
StopTerminatesLoop == <>[](~running) => <>[](Executing = {})

\* the value a tunable takes: the configured one, or the default if omitted
Configured(tunable, default) == IF tunable = None THEN default ELSE tunable[1]

\* C13 (SpecControl). The poller uses the configured tunables: the interval
\* and the retry limit of the BackgroundMonitorThread that main() builds are
\* the configuration's monitor_interval and max_retries, or 5 and 3 where the
\* configuration omits them.
UsesConfiguredTunables ==
  background_monitor # None =>
    /\ background_monitor[1].monitor_interval
         = Configured(config[1].monitor_interval, 5)
    /\ "max_retries" \in DOMAIN background_monitor[1]
    /\ background_monitor[1].max_retries
         = Configured(config[1].max_retries, 3)

\* the arguments and the result of the verify_password call just made
Verified == verify_args # None
ArgPassword == verify_args[1][1]
ArgHash == verify_args[1][2]
ArgSalt == verify_args[1][3]

\* C17 (SpecCredential). Credential round-trip: for a password p and a
\* generated salt s, verify_password(p, hash_password(p, s), s) is true, and
\* verify_password(p', hash_password(p, s), s) is false for every p' other
\* than p.
CredentialRoundTrip ==
  Verified /\ ArgSalt \in GeneratedSalts =>
    \A p \in Passwords \ {None} :
      ArgHash = At(hash_password(p, ArgSalt)) =>
        (verify_ret[1] <=> ArgPassword = p)

\* a wrong password has been offered against a generated hash and salt, and
\* refused
WitnessCredentialRoundTrip ==
  /\ Verified
  /\ ArgSalt = At(b64encode(<< <<1>>, <<2>> >>))
  /\ ArgHash = At(hash_password(At("p"), ArgSalt))
  /\ ArgPassword = At("q")
  /\ verify_ret[1] = FALSE

\* one of the arguments is the empty string or None
MissingInput ==
  \/ ArgPassword \in {None, At("")}
  \/ ArgHash \in {None, At(<<>>)}
  \/ ArgSalt \in {None, At(<<>>)}

\* C18 (SpecCredential). verify_password returns false whenever the
\* candidate password, the stored hash or the stored salt is empty or None,
\* and whenever the salt is not valid base64.
MissingInputRefused ==
  Verified /\ (MissingInput \/ ArgSalt \notin GeneratedSalts) =>
    verify_ret[1] = FALSE

\* send_wol has returned its response
Answered == wol_pc = "done"

\* C14 (SpecForwarder). Aggregator wake authorization: a /wol request whose
\* password is not the aggregator's own, or is missing, is answered HTTP 401
\* and causes no downstream request.
WakeAuthorization ==
  form # None /\ form[1].password # At("p") =>
    /\ posted = <<>>
    /\ Answered => reply[1].status = 401

\* a request without a password field has been answered 401 with nothing
\* sent downstream
WitnessWakeAuthorization ==
  /\ Answered
  /\ form[1].password = None
  /\ form[1].backend_address # None
  /\ reply[1].status = 401
  /\ posted = <<>>

\* the request was authorized and requests.post has been called
Forwarded == Answered /\ downstream # None

\* C15 (SpecForwarder). Forwarder response mapping: for an authorized wake
\* request a downstream 201 yields success, a downstream 401 yields
\* "Backend authentication failed" with HTTP 401, a downstream 404 yields
\* "Host not found on backend" with HTTP 404, and every other downstream
\* status and every transport failure yields HTTP 500 carrying the status or
\* the failure; each request gets exactly one of these responses.
ForwarderResponseMapping ==
  Forwarded =>
    LET o == downstream[1]
        r == reply[1]
        is(c) == o.kind = "response" /\ o.status_code = c
    IN /\ Len(posted) = 1
       /\ is(201) => r.success /\ r.status = 200
       /\ is(401) => ~r.success /\ r.status = 401
                       /\ r.text = "Backend authentication failed"
       /\ is(404) => ~r.success /\ r.status = 404
                       /\ r.text = "Host not found on backend"
       /\ ~(is(201) \/ is(401) \/ is(404)) =>
            /\ ~r.success /\ r.status = 500
            /\ o.kind = "response" =>
                 r.text = "Backend error" /\ r.detail = o.status_code
            /\ o.kind # "response" =>
                 r.text = "Connection error" /\ r.detail = o.kind

\* a downstream answer of 200, which is not the edge agent's 201, has been
\* mapped to a backend error carrying that status
WitnessForwarderResponseMapping ==
  /\ Forwarded
  /\ downstream[1].kind = "response"
  /\ downstream[1].status_code = 200
  /\ reply[1].status = 500
  /\ reply[1].detail = 200

\* C16 (SpecForwarder). The forwarder relays only to configured backends:
\* every downstream wake request goes to the address of some configured
\* backend and carries that backend's configured password.
RelaysOnlyToConfigured ==
  \A n \in DOMAIN posted :
    \E i \in DOMAIN Backends :
      /\ posted[n].address = Backends[i].address
      /\ posted[n].password = At(Backends[i].password)

\* the hosts whose WOL counter has changed since the request arrived
Woken == {h \in DOMAIN host_wol : host_wol[h] # wol_before[h]}

\* the names of the configured hosts, as form fields
ConfiguredHosts == {At(Hosts[i].host) : i \in DOMAIN Hosts}

\* C19 (SpecEdge). Edge wake gate: a magic packet is sent and a WOL counter
\* incremented only for a /wol request whose password is the configured one
\* and whose host is configured, and then only that host's counter moves; a
\* request answered 400, 401 or 404 sends no packet and leaves every counter
\* as it was.
EdgeWakeGate ==
  request # None =>
    /\ (packets # <<>> \/ Woken # {}) =>
         /\ request[1].password = At("q")
         /\ request[1].host \in ConfiguredHosts
         /\ Woken \subseteq {request[1].host[1]}
    /\ (\E n \in DOMAIN responses : responses[n].status \in {400, 401, 404}) =>
         /\ packets = <<>>
         /\ Woken = {}

\* a wake of pc2 has gone out after an earlier one, and its counter moved
\* from 1 to 2
WitnessEdgeWakeGate ==
  /\ edge_pc = "done"
  /\ request[1].host = At("pc2")
  /\ Len(packets) = 1
  /\ wol_before["pc2"] = 1
  /\ host_wol["pc2"] = 2
  /\ responses[1].status = 201

\* do_POST has been left for this request
Handled == edge_pc \in {"done", "aborted"}

\* the status the protocol's order of checks decides for a request
Decided(r) ==
  IF r.host \in {None, At("")} \/ r.password \in {None, At("")} THEN {400}
  ELSE IF r.password # At("q") THEN {401}
  ELSE IF r.host \notin ConfiguredHosts THEN {404}
  ELSE {201, 500}

\* C20 (SpecEdge). Edge /wol response protocol: each request gets exactly
\* one response, decided in the order missing host or password -> 400,
\* password mismatch -> 401, unknown host -> 404, dispatch succeeded -> 201,
\* dispatch failed -> 500.
WolResponseProtocol ==
  Handled =>
    /\ Len(responses) = 1
    /\ responses[1].status \in Decided(request[1])
    /\ responses[1].status = 201 <=> packets # <<>>

\* the snapshot holds a placeholder of backend i
HasPlaceholder(i) == \E k \in DOMAIN cache : IsPlaceholder(cache[k], i)

\* backend i's first fetch of the cycle failed and the agent would have
\* answered a later attempt within max_retries
RecoversInCycle(i) == ~Responded(i) /\ fetched[i].recovers /\ max_retries > 1

\* C21 (Spec). A retry that succeeds counts as success: when a backend's
\* fetch fails and a later attempt in the same cycle would succeed, the
\* snapshot of that cycle has the host entries of the backend's answer with
\* is_proxy_down false and no proxy-down entry for it, and the attempts stop
\* at the first success.
RetrySuccessCounts ==
  Installed =>
    \A i \in BackendIds :
      RecoversInCycle(i) =>
        /\ ~HasPlaceholder(i)
        /\ fetched[i].calls = 2
        /\ (\A j \in BackendIds : j > i => "h2" \notin Contributed(j)) =>
             /\ "h2" \in DOMAIN cache
             /\ cache["h2"].is_proxy_down = FALSE
             /\ FromBackend(cache["h2"], i)

\* C22 (Spec). Proxy-down means the agent did not respond: the snapshot of a
\* cycle has a proxy-down entry for a backend if and only if the backend's
\* fetch failed in that cycle; a backend that answered 200 has none,
\* whatever its body.
ProxyDownMeansNoResponse ==
  Installed => \A i \in BackendIds : HasPlaceholder(i) <=> ~Responded(i)

\* the monitor is inside the replace_all call that ends a cycle, or past it
Installing ==
  pc[Monitor] \in {"ra_lock", "ra_stamp", "ra_swap", "ra_time", "ra_unlock"}

\* C23 (Spec). Sequential polling: in a cycle the backends are fetched one
\* at a time in configuration order (the n-th fetch of the cycle is of the
\* n-th configured backend, and the next backend's fetch is not begun before
\* it), and replace_all is called only when every backend has been fetched
\* once in that cycle.
SequentialPolling ==
  /\ Len(fetched) <= Len(Backends)
  /\ \A n \in 1..Len(fetched) : fetched[n].backend = Backends[n].host
  /\ pc[Monitor] = "check" => backend_idx = Len(fetched) + 1
  /\ (Installing \/ Installed) => Len(fetched) = Len(Backends)

\* in the second cycle the first backend has been fetched, the second not
\* yet, and the cache still holds the first cycle's snapshot
WitnessSequentialPolling ==
  /\ cycles = 2
  /\ pc[Monitor] = "check"
  /\ Len(fetched) = 1
  /\ fetched[1].backend = Backends[1].host
  /\ backend_idx = 2
  /\ installs = 1

\* C24 (Spec). One install per cycle on an initially empty cache: as long
\* as the monitor has completed no replace_all, the cache a get_all would
\* read under the lock is the empty mapping with last_updated absent; the
\* monitor is inside replace_all only when every backend of the cycle has
\* been handled; and it completes a replace_all exactly when it completes a
\* cycle, the cache changing at no other step of the monitor.
OneInstallPerCycle ==
  /\ []((installs = 0 /\ lock = "free") =>
         (cache = EmptyDict /\ last_updated = None))
  /\ [](Installing => Len(fetched) = Len(Backends))
  /\ [][/\ installs' \in {installs, installs + 1}
        /\ (installs' = installs + 1) <=> (~Installed /\ Installed')
        /\ cache' # cache => Installing /\ Len(fetched) = Len(Backends)]_vars

\* the first cycle has fetched a backend and holds its entries, and the
\* cache is still empty and unstamped
WitnessOneInstallPerCycle ==
  /\ cycles = 1
  /\ installs = 0
  /\ pc[Monitor] = "check"
  /\ Len(fetched) = 1
  /\ DOMAIN new_cache_data # {}
  /\ cache = EmptyDict
  /\ last_updated = None

\* the monitor's time.sleep returns at this step
Slept == pc[Monitor] = "sleep" /\ pc'[Monitor] = "loop"

\* C25 (Spec). Sleep duration: after a cycle that took `elapsed` the loop
\* sleeps max(0, interval - elapsed): never a negative time, no time when
\* the cycle took the interval or longer, and the next cycle can start
\* max(interval, elapsed) after this one started.
SleepDuration ==
  [][Slept =>
       LET elapsed == now - start_time
           sleep_time == now' - now
       IN /\ sleep_time >= 0
          /\ elapsed >= 5 => sleep_time = 0
          /\ elapsed < 5 => sleep_time = 5 - elapsed
          /\ now' - start_time = IF elapsed > 5 THEN elapsed ELSE 5]_vars

\* both fetches of a cycle ran into their timeout, the cycle took longer
\* than the interval, and the sleep has returned without the clock moving
WitnessSleepDuration ==
  /\ pc[Monitor] = "loop"
  /\ Len(fetched) = 2
  /\ \A n \in 1..2 : fetched[n].kind = "timeout"
  /\ installs >= 1
  /\ now - start_time = 6


\* C26: the entries of a snapshot get_all has returned keep the key set and
\* the contents they had when it returned, whatever replace_all calls and
\* poll cycles follow.
SnapshotStable ==
  snapshot # None =>
    /\ DOMAIN snapshot[1] = DOMAIN seen[1]
    /\ Deref(heap, snapshot[1]) = seen[1]


\* the steps at which a thread enters, and those it takes inside, a with-block
Entering == {"ra_lock", "ga_lock", "is_lock"}
Holding == {"ra_stamp", "ra_swap", "ra_time", "ra_unlock",
            "ga_hosts", "ga_time", "ga_unlock", "is_check", "is_unlock"}

NoIOUnderLock ==
  /\ [](lock = Monitor <=>
          pc[Monitor] \in {"ra_stamp", "ra_swap", "ra_time", "ra_unlock"})
  /\ [][(pc[Monitor] \in {"check", "sleep"} \/ now' # now) =>
          (lock = "free" /\ lock' = "free")]_vars

\* the poller about to sleep, lock released, after a cycle in which a fetch
\* ran into its timeout
WitnessNoIOUnderLock ==
  /\ pc[Monitor] = "sleep"
  /\ lock = "free"
  /\ installs = 1
  /\ now - start_time = fetch_timeout
  /\ \E n \in 1..Len(fetched) : fetched[n].kind = "timeout"


\* the request carries the aggregator's own password
Authorized == form # None /\ form[1].password = At("p")

\* C29 (SpecForwarder). Wake is not retried: an authorized wake request has
\* caused no downstream POST before requests.post is reached and exactly one,
\* built from its form, once it is answered, whether the backend answered
\* with any status or the transport failed.
WakeNotRetried ==
  Authorized =>
    /\ Len(posted) <= 1
    /\ ~Answered => posted = <<>>
    /\ Answered => posted = <<Post(form[1])>>

\* an authorized request whose one POST failed in transport has been
\* answered 500
WitnessWakeNotRetried ==
  /\ Authorized
  /\ Answered
  /\ downstream[1].kind = "request_exception"
  /\ Len(posted) = 1
  /\ reply[1].status = 500


\* C30 (SpecService). Wake and monitoring are independent: no step of
\* send_wol changes the cache mapping or last_updated, and an authorized
\* request is forwarded and answered by what the backend did alone, whatever
\* the cache holds for its host at any moment of the request.
WakeIndependentOfCache ==
  /\ [][wol_pc' # wol_pc =>
          /\ cache' = cache
          /\ last_updated' = last_updated
          /\ cache_ref' = cache_ref]_vars
  /\ [](Authorized /\ Answered =>
          /\ posted = <<Post(form[1])>>
          /\ reply[1] = Mapped(downstream[1]))

\* a wake for a host the installed snapshot reports as down has been
\* forwarded and has succeeded
WitnessWakeIndependentOfCache ==
  /\ Authorized
  /\ Answered
  /\ form[1].host = At("h2")
  /\ "h2" \in DOMAIN cache
  /\ cache["h2"].status = 0
  /\ last_updated # None
  /\ posted = <<Post(form[1])>>
  /\ reply[1].success


\* this step answers the /wol request for host h with 201
Answers201(h) ==
  /\ Len(responses') = Len(responses) + 1
  /\ responses'[Len(responses')].status = 201
  /\ parse_qs(request[1].host) = At(h)

\* C31 (SpecAgent). Wake counter: every configured host's counter starts at
\* 0, never decreases, goes up by exactly 1 in the step that answers a /wol
\* request for that host with 201, and is left alone by every other step of
\* a request and by every step of the host monitor loop.
WakeCounter ==
  /\ \A h \in DOMAIN host_wol : host_wol[h] = 0
  /\ [][\A h \in DOMAIN host_wol :
          /\ host_wol'[h] >= host_wol[h]
          /\ IF Answers201(h)
             THEN host_wol'[h] = host_wol[h] + 1
             ELSE host_wol'[h] = host_wol[h]]_vars

\* the second wake of pc1 has been answered 201 while the host monitor,
\* which found pc1 up, is between two cycles
WitnessWakeCounter ==
  /\ edge_pc = "done"
  /\ responses = <<[status |-> 201, content |-> "WOL signal sent successfully"]>>
  /\ request[1].host = At("pc1")
  /\ host_wol = [h \in {"pc1", "pc2"} |-> IF h = "pc1" THEN 2 ELSE 0]
  /\ wol_before["pc1"] = 1
  /\ hm_pc[1] = "sleep"
  /\ host_up["pc1"] = 1


\* the threads executing HostMonitor._monitor_loop
HostMonitorExecuting ==
  {m \in ThreadObjects : hm_pc[m] \in {"test", "ping", "sleep"}}

\* C38 (SpecHostMonitor). Edge monitor single loop: whatever start() and
\* stop() calls have been made, at most one thread is executing
\* HostMonitor._monitor_loop.
EdgeMonitorSingleLoop == Cardinality(HostMonitorExecuting) <= 1


\* the lines of a text
RECURSIVE SplitLines(_, _)
SplitLines(text, line) ==
  IF text = <<>> THEN <<line>>
  ELSE IF Head(text) = Newline
       THEN <<line>> \o SplitLines(Tail(text), <<>>)
       ELSE SplitLines(Tail(text), Append(line, Head(text)))

\* a whole line of the form rewol_host_up{host="<name>"} <0|1>
WellFormed(line) ==
  /\ Len(line) = 6
  /\ line[1] = FamilyName
  /\ line[2] = LabelOpen
  /\ Quoteless(line[3])
  /\ line[4] = LabelClose
  /\ line[5] = Blank
  /\ line[6] \in {"0", "1"}

\* one record per host named on a well-formed line, the last line winning
HostRecords(text) ==
  LET lines == SplitLines(text, <<>>)
      good == {n \in DOMAIN lines : WellFormed(lines[n])}
      named == {<<lines[n][3]>> : n \in good}
      last(h) == CHOOSE n \in good :
                   /\ <<lines[n][3]>> = h
                   /\ \A m \in good : <<lines[m][3]>> = h => m <= n
  IN [h \in named |->
        [status |-> IF lines[last(h)][6] = "1" THEN 1 ELSE 0, name |-> h]]

\* C32 (SpecCodec). Codec: parse_prometheus_metrics returns one record per
\* host named on a well-formed rewol_host_up line, with the name of the label
\* and status 1 exactly when the value is 1, the last line of a host winning;
\* lines of other families and malformed lines contribute nothing.
CodecWellFormedOnly ==
  metrics_text # None => metrics_hosts[1] = HostRecords(metrics_text[1])


\* the loop thread is inside a cycle that has not yet installed its snapshot
CycleInProgress ==
  pc[Monitor] \in {"check", "ra_lock", "ra_stamp", "ra_swap", "ra_time",
                   "ra_unlock"}

\* C33 (Spec). After stop, at most one more install: while the running flag
\* stays clear no cycle begins, so no backend is fetched after the cycle in
\* progress; a replace_all completes only for a cycle that was in progress
\* and ends it, and once no cycle is in progress none is again.
AfterStopOneInstall ==
  [][(~running /\ ~running') =>
       /\ cycles' = cycles
       /\ Len(fetched') > Len(fetched) => CycleInProgress
       /\ installs' \in {installs, installs + 1}
       /\ installs' = installs + 1 => (CycleInProgress /\ ~CycleInProgress')
       /\ ~CycleInProgress => ~CycleInProgress']_vars

\* stop() came while the second cycle was in progress, and that cycle's
\* replace_all is under way
WitnessAfterStopOneInstall ==
  /\ ~running
  /\ cycles = 2
  /\ installs = 1
  /\ pc[Monitor] = "ra_swap"
  /\ Len(fetched) = Len(Backends)


\* no thread is inside replace_all's with-block
NotReplacing == lock \notin Writers

EntryWellFormed ==
  \A k \in DOMAIN cache :
    LET e == cache[k]
    IN /\ e.name = k
       /\ e.status \in {0, 1}
       /\ e.is_proxy_down \in BOOLEAN
       /\ \E i \in BackendIds :
            /\ FromBackend(e, i)
            /\ e.is_proxy_down =>
                 e.status = 0 /\ e.name = e.backend_name \o " (proxy down)"

\* an installed snapshot holding the placeholder of backend B next to a host
\* that backend A reported under the name of its own placeholder
WitnessEntryWellFormed ==
  /\ Installed
  /\ DOMAIN cache = {"A (proxy down)", "B (proxy down)"}
  /\ ~cache["A (proxy down)"].is_proxy_down
  /\ cache["A (proxy down)"].status = 1
  /\ cache["B (proxy down)"].is_proxy_down


\* api_status has returned its response
Reported200 == api_pc = "done"

\* C36 (SpecStatus). /api/status reports one consistent view: in every
\* response host_count is the number of hosts returned, and a response
\* without last_updated says is_stale.
ApiStatusConsistent ==
  Reported200 =>
    /\ api_response[1].host_count = Cardinality(DOMAIN api_response[1].hosts)
    /\ api_response[1].last_updated = None => api_response[1].is_stale


\* the hosts of a response as the run configured with other backend
\* passwords returns them: the poller copies a backend's password into its
\* entries and uses it nowhere else
WithOtherSecrets(hosts) ==
  [k \in DOMAIN hosts |->
     [hosts[k] EXCEPT !.backend_password = "other " \o hosts[k].backend_name]]

\* C37 (SpecStatus). Backend secrets do not leak to status readers: the body
\* of a /api/status response is the same in the run that differs only in
\* the configured backend passwords.
SecretsDoNotLeak ==
  Reported200 =>
    WithOtherSecrets(api_response[1].hosts) = api_response[1].hosts

====
